---------------------------- MODULE Spec2Model ----------------------------
(***************************************************************************)
(* Model of the LLM router: the provider contract (base.py), the two       *)
(* backend adapters (openai_client.py, anthropic_client.py), the registry  *)
(* and router and the OpenAI-style facade (router.py).                     *)
(*                                                                         *)
(* A Python str is a record [isstr |-> TRUE, s |-> <<tokens>>]; a value    *)
(* that is not a str is NonStr.  Tokens are characters or short pieces of  *)
(* text; " " and "\n\n" are whitespace.  An exception is a record with the *)
(* Python class in kind; NoExc means the call returned.                    *)
(***************************************************************************)
EXTENDS Integers, Sequences, FiniteSets, TLC

(* ------------------------------ bounds --------------------------------- *)
MaxMsgs == 2
MaxConvLen == 3
MaxParams == 2

(* --------------------------- Python values ----------------------------- *)
Str(s) == [isstr |-> TRUE, s |-> s]
NonStr == [isstr |-> FALSE, s |-> <<>>]

Whitespace == {" ", "\n\n"}

RECURSIVE LStrip(_)
LStrip(s) ==
    IF s # <<>> /\ Head(s) \in Whitespace THEN LStrip(Tail(s)) ELSE s

RECURSIVE RStrip(_)
RStrip(s) ==
    IF s # <<>> /\ s[Len(s)] \in Whitespace
    THEN RStrip(SubSeq(s, 1, Len(s) - 1)) ELSE s

Strip(s) == RStrip(LStrip(s))

UpperAlpha == <<"A","B","C","D","E","F","G","H","I","J","K","L","M",
                "N","O","P","Q","R","S","T","U","V","W","X","Y","Z">>
LowerAlpha == <<"a","b","c","d","e","f","g","h","i","j","k","l","m",
                "n","o","p","q","r","s","t","u","v","w","x","y","z">>

LowerChar(c) ==
    IF \E i \in 1..Len(UpperAlpha) : UpperAlpha[i] = c
    THEN LowerAlpha[CHOOSE i \in 1..Len(UpperAlpha) : UpperAlpha[i] = c]
    ELSE c

Lower(s) == [i \in 1..Len(s) |-> LowerChar(s[i])]

(* ----------------------------- exceptions ------------------------------ *)
NoCause == [kind |-> "none", text |-> <<>>]

Exc(kind, fmt, index, arg, names, cause, context) ==
    [kind |-> kind, fmt |-> fmt, index |-> index, arg |-> arg,
     names |-> names, cause |-> cause, context |-> context]

NoExc == Exc("none", "", -1, <<>>, <<>>, NoCause, NoCause)

ValueError(fmt, index, arg) ==
    Exc("ValueError", fmt, index, arg, <<>>, NoCause, NoCause)

(* ------------------------------ base.py -------------------------------- *)
validate_model_name(model) ==
    IF ~model.isstr \/ model.s = <<>>
    THEN ValueError("Model name must be a non-empty string.", -1, <<>>)
    ELSE NoExc

MsgKeys == {"role", "content"}

MessageError(i, message) ==
    IF ~message.isdict
    THEN ValueError("Message {i} must be a dictionary.", i, <<>>)
    ELSE IF message.keys # MsgKeys
    THEN ValueError("Message {i} must contain only 'role' and 'content' keys.", i, <<>>)
    ELSE IF ~(/\ message.role.isstr /\ Strip(message.role.s) # <<>>
              /\ message.content.isstr /\ Strip(message.content.s) # <<>>)
    THEN ValueError("Message {i} 'role' and 'content' must be non-empty strings.", i, <<>>)
    ELSE NoExc

\* Python indexes from 0: element k of items is message k-1.  The loop
\* raises at the first element that fails a check.
FirstMessageError(items) ==
    LET bad == {k \in 1..Len(items) : MessageError(k - 1, items[k]) # NoExc}
    IN  IF bad = {} THEN NoExc
        ELSE LET k == CHOOSE m \in bad : \A n \in bad : m <= n
             IN  MessageError(k - 1, items[k])

\* Mutant: the emptiness check is lost.
Mut_validate_messages(messages) ==
    IF ~messages.islist
    THEN ValueError("Messages must be a non-empty list of dictionaries.", -1, <<>>)
    ELSE FirstMessageError(messages.items)

_validate_messages(messages) ==
    IF ~messages.islist \/ messages.items = <<>>
    THEN ValueError("Messages must be a non-empty list of dictionaries.", -1, <<>>)
    ELSE FirstMessageError(messages.items)

\* params is the keyword mapping in insertion order: a sequence of keys.
_validate_common_params(params, hasAllowed, allowed) ==
    LET bad == {k \in 1..Len(params) : params[k] \notin allowed}
    IN  IF hasAllowed /\ bad # {}
        THEN ValueError("Unknown parameter: {key}", -1,
                        <<params[CHOOSE m \in bad : \A n \in bad : m <= n]>>)
        ELSE NoExc

(* --------------------------- vendor clients ---------------------------- *)
\* The vendor SDK is an opaque collaborator: given a native request it
\* returns a native response with one text segment, returns a response with
\* no choices / content segments, or raises its own failure.
VendorBehaviours == {"text", "empty", "raise"}

VendorError == [kind |-> "APIError", text |-> <<"rate limit">>]
IndexError == [kind |-> "IndexError", text |-> <<"list index out of range">>]

VendorResponse(vendor) ==
    [segments |-> IF vendor = "text" THEN <<Str(<<"hello">>)>> ELSE <<>>,
     usage |-> <<5, 1, 6>>]

NoRaw == [segments |-> <<>>, usage |-> <<>>]
NoResp == [provider |-> "", model |-> NonStr, content |-> NonStr,
           usage |-> <<>>, raw_response |-> NoRaw]

\* What one call did: the exception it ended in (NoExc: it returned resp)
\* and the native requests it handed to the vendor client, in order.
Outcome(exc, resp, sent) == [exc |-> exc, resp |-> resp, sent |-> sent]

NativeRequest(model, msgs, kwargs) ==
    [model |-> model, messages |-> msgs, kwargs |-> kwargs]

(* -------------------------- openai_client.py --------------------------- *)
allowed_params ==
    {"max_tokens", "temperature", "top_p", "n", "stream", "stop",
     "presence_penalty", "frequency_penalty", "logit_bias", "user",
     "response_format", "seed", "tools"}

OpenAIProvider_chat(self, model, messages, kwargs, vendor) ==
    LET e1 == validate_model_name(model)
        e2 == _validate_messages(messages)
        e3 == _validate_common_params(kwargs, TRUE, allowed_params)
        req == NativeRequest(model, messages.items, kwargs)
        response == VendorResponse(vendor)
    IN  IF e1 # NoExc THEN Outcome(e1, NoResp, <<>>)
        ELSE IF e2 # NoExc THEN Outcome(e2, NoResp, <<>>)
        ELSE IF e3 # NoExc THEN Outcome(e3, NoResp, <<>>)
        ELSE IF vendor = "raise"
        THEN Outcome(Exc("RuntimeError", "OpenAI API error: {str(e)}", -1,
                         VendorError.text, <<>>, VendorError, VendorError),
                     NoResp, <<req>>)
        ELSE Outcome(NoExc,
                     [provider |-> "openai", model |-> model,
                      content |-> IF response.segments # <<>>
                                  THEN response.segments[1] ELSE Str(<<>>),
                      usage |-> <<response.usage[1], response.usage[2],
                                  response.usage[3]>>,
                      raw_response |-> response],
                     <<req>>)

(* ------------------------- anthropic_client.py ------------------------- *)
SYSTEM == <<"system">>
USER == <<"user">>
ASSISTANT == <<"assistant">>
SEP == <<"\n\n">>

\* Mutant: a system message met before any leading user message is skipped
\* instead of becoming a user message.
MutConvertStep(converted_messages, message) ==
    LET role == message.role.s
        content == message.content.s
    IN  IF role = USER
        THEN Append(converted_messages, [role |-> USER, content |-> content])
        ELSE IF role = ASSISTANT
        THEN Append(converted_messages, [role |-> ASSISTANT, content |-> content])
        ELSE IF role = SYSTEM
        THEN IF converted_messages # <<>> /\ converted_messages[1].role = USER
             THEN [converted_messages EXCEPT
                      ![1].content = content \o SEP \o converted_messages[1].content]
             ELSE converted_messages
        ELSE converted_messages

\* One iteration of the loop of _convert_messages.
ConvertStep(converted_messages, message) ==
    LET role == message.role.s
        content == message.content.s
    IN  IF role = USER
        THEN Append(converted_messages, [role |-> USER, content |-> content])
        ELSE IF role = ASSISTANT
        THEN Append(converted_messages, [role |-> ASSISTANT, content |-> content])
        ELSE IF role = SYSTEM
        THEN IF converted_messages # <<>> /\ converted_messages[1].role = USER
             THEN [converted_messages EXCEPT
                      ![1].content = content \o SEP \o converted_messages[1].content]
             ELSE Append(converted_messages, [role |-> USER, content |-> content])
        ELSE converted_messages

RECURSIVE ConvertLoop(_, _)
ConvertLoop(converted_messages, rest) ==
    IF rest = <<>> THEN converted_messages
    ELSE ConvertLoop(ConvertStep(converted_messages, Head(rest)), Tail(rest))

_convert_messages(items) == ConvertLoop(<<>>, items)

\* The try block covers the conversion, the vendor call and the reading of
\* response.content[0].text; whatever is raised there is re-raised as a bare
\* Exception without "from", so __cause__ stays unset.
AnthropicProvider_chat(self, model, messages, kwargs, vendor) ==
    LET e1 == _validate_messages(messages)
        anthropic_messages == _convert_messages(messages.items)
        req == NativeRequest(model, anthropic_messages, kwargs)
        response == VendorResponse(vendor)
    IN  IF e1 # NoExc THEN Outcome(e1, NoResp, <<>>)
        ELSE IF vendor = "raise"
        THEN Outcome(Exc("Exception", "Anthropic API error: {str(e)}", -1,
                         VendorError.text, <<>>, NoCause, VendorError),
                     NoResp, <<req>>)
        ELSE IF response.segments = <<>>
        THEN Outcome(Exc("Exception", "Anthropic API error: {str(e)}", -1,
                         IndexError.text, <<>>, NoCause, IndexError),
                     NoResp, <<req>>)
        ELSE Outcome(NoExc,
                     [provider |-> "anthropic", model |-> model,
                      content |-> response.segments[1],
                      usage |-> <<response.usage[1], response.usage[2]>>,
                      raw_response |-> response],
                     <<req>>)

(* ------------------------------ router.py ------------------------------ *)
NAME_OPENAI == <<"o","p","e","n","a","i">>
NAME_ANTHROPIC == <<"a","n","t","h","r","o","p","i","c">>

\* The dict keeps insertion order: <<key, class>> pairs.
_PROVIDER_REGISTRY ==
    << <<NAME_OPENAI, "OpenAIProvider">>,
       <<NAME_ANTHROPIC, "AnthropicProvider">> >>

RegistryKeys == [i \in 1..Len(_PROVIDER_REGISTRY) |-> _PROVIDER_REGISTRY[i][1]]

\* dict.get: the class registered under name, or "None".
RegistryGet(name) ==
    IF \E i \in 1..Len(_PROVIDER_REGISTRY) : _PROVIDER_REGISTRY[i][1] = name
    THEN _PROVIDER_REGISTRY[CHOOSE i \in 1..Len(_PROVIDER_REGISTRY) :
                               _PROVIDER_REGISTRY[i][1] = name][2]
    ELSE "None"

NoProvider == [cls |-> "None", api_key |-> "", config |-> <<>>]
NoRouter == [provider_name |-> <<>>, api_key |-> "", provider_config |-> <<>>,
             provider |-> NoProvider]
NoClient == [router |-> NoRouter]

Built(obj, exc) == [obj |-> obj, exc |-> exc]

\* OpenAIProvider.__init__ and AnthropicProvider.__init__ take api_key only
\* and call BaseProvider.__init__(api_key), which stores config = {}.  Any
\* further keyword is a TypeError of the call itself.
Provider_init(cls, api_key, config) ==
    IF config # <<>>
    THEN Built(NoProvider,
               Exc("TypeError", "__init__() got an unexpected keyword argument",
                   -1, <<config[1]>>, <<>>, NoCause, NoCause))
    ELSE Built([cls |-> cls, api_key |-> api_key, config |-> <<>>], NoExc)

\* Mutant: the name is looked up as given.
MutLLMRouter_init(provider_name, api_key, provider_config) ==
    LET provider_cls == RegistryGet(provider_name)
        made == Provider_init(provider_cls, api_key, provider_config)
    IN  IF provider_cls = "None"
        THEN Built(NoRouter,
                   Exc("ValueError",
                       "Unsupported provider: {name}. Supported providers: {keys}",
                       -1, provider_name, RegistryKeys, NoCause, NoCause))
        ELSE IF made.exc # NoExc THEN Built(NoRouter, made.exc)
        ELSE Built([provider_name |-> provider_name, api_key |-> api_key,
                    provider_config |-> provider_config,
                    provider |-> made.obj], NoExc)

\* LLMRouter.__init__ with _create_provider.
LLMRouter_init(provider_name, api_key, provider_config) ==
    LET name == Lower(provider_name)
        provider_cls == RegistryGet(name)
        made == Provider_init(provider_cls, api_key, provider_config)
    IN  IF provider_cls = "None"
        THEN Built(NoRouter,
                   Exc("ValueError",
                       "Unsupported provider: {name}. Supported providers: {keys}",
                       -1, name, RegistryKeys, NoCause, NoCause))
        ELSE IF made.exc # NoExc THEN Built(NoRouter, made.exc)
        ELSE Built([provider_name |-> name, api_key |-> api_key,
                    provider_config |-> provider_config,
                    provider |-> made.obj], NoExc)

LLMClient_init(provider_name, api_key, provider_config) ==
    LET made == LLMRouter_init(provider_name, api_key, provider_config)
    IN  IF made.exc # NoExc THEN Built(NoClient, made.exc)
        ELSE Built([router |-> made.obj], NoExc)

\* Dynamic dispatch of provider.chat on the adapter's class.
Provider_chat(provider, model, messages, kwargs, vendor) ==
    IF provider.cls = "OpenAIProvider"
    THEN OpenAIProvider_chat(provider, model, messages, kwargs, vendor)
    ELSE AnthropicProvider_chat(provider, model, messages, kwargs, vendor)

\* Mutant: the router checks the model name itself before forwarding.
MutLLMRouter_chat(self, model, messages, kwargs, vendor) ==
    IF validate_model_name(model) # NoExc
    THEN Outcome(validate_model_name(model), NoResp, <<>>)
    ELSE Provider_chat(self.provider, model, messages, kwargs, vendor)

LLMRouter_chat(self, model, messages, kwargs, vendor) ==
    Provider_chat(self.provider, model, messages, kwargs, vendor)

\* LLMClient.chat returns ChatCompletions(self.router); .completions is self.
LLMClient_chat(self) == [router |-> self.router]
ChatCompletions_completions(self) == self

ChatCompletions_create(self, model, messages, kwargs, vendor) ==
    LLMRouter_chat(self.router, model, messages, kwargs, vendor)

(* ------------------------------- inputs -------------------------------- *)
SeqUpTo(S, n) == UNION {[1..k -> S] : k \in 0..n}

Msg(role, content) ==
    [isdict |-> TRUE, keys |-> MsgKeys, role |-> Str(role), content |-> Str(content)]

TOOL == <<"tool">>

\* Well-formed messages, and elements the validation has to judge.
GoodMsgs == {Msg(SYSTEM, <<"a">>), Msg(USER, <<"b">>), Msg(ASSISTANT, <<"c">>)}
OddMsgs ==
    {Msg(TOOL, <<"a">>),
     Msg(USER, <<>>),
     Msg(USER, <<" ">>),
     [Msg(USER, <<>>) EXCEPT !.content = NonStr],
     [Msg(USER, <<"b">>) EXCEPT !.isdict = FALSE],
     [Msg(USER, <<"b">>) EXCEPT !.keys = MsgKeys \cup {"name"}]}

List(items) == [islist |-> TRUE, items |-> items]
NotAList == [islist |-> FALSE, items |-> <<>>]

ChatMessages ==
    {List(s) : s \in SeqUpTo(GoodMsgs \cup OddMsgs, MaxMsgs)} \cup {NotAList}

MODEL_ID == <<"gpt-3.5-turbo">>
Models == {Str(MODEL_ID), Str(<<>>), NonStr}

ParamKeys == {"temperature", "bogus"}
Kwargs ==
    {s \in SeqUpTo(ParamKeys, MaxParams) :
        \A i, j \in 1..Len(s) : s[i] = s[j] => i = j}

Request(model, messages, kwargs) ==
    [model |-> model, messages |-> messages, kwargs |-> kwargs]
ChatRequests ==
    {Request(m, ms, kw) : m \in Models, ms \in ChatMessages, kw \in Kwargs}
IdleRequest == Request(NonStr, NotAList, <<>>)

\* Inputs of the translation: what _validate_messages lets through.
ConvMsgs ==
    {Msg(r, c) : r \in {SYSTEM, USER, ASSISTANT}, c \in {<<"Be terse.">>, <<"Hi">>}}
        \cup {Msg(TOOL, <<"Hi">>)}
ConvRequests ==
    {Request(Str(MODEL_ID), List(s), <<>>) : s \in SeqUpTo(ConvMsgs, MaxConvLen)}

BackendNames ==
    {NAME_OPENAI, NAME_ANTHROPIC,
     <<"O","p","e","n","A","I">>, <<"A","N","T","H","R","O","P","I","C">>,
     <<"i","n","v","a","l","i","d">>, <<"O","p","e","n">>, <<>>,
     <<"o","p","e","n","a","i"," ">>}
ApiKeys == {"sk-1", "sk-2"}
Configs == {<<>>, <<"timeout">>, <<"base_url", "timeout">>}

Args(name, key, config) ==
    [provider_name |-> name, api_key |-> key, provider_config |-> config]
CtorArgs == {Args(n, k, c) : n \in BackendNames, k \in ApiKeys, c \in Configs}
\* Names and configuration under which construction goes through.
ChatArgs ==
    {Args(n, "sk-1", <<>>) : n \in {<<"O","p","e","n","A","I">>, NAME_ANTHROPIC}}

(* ------------------------------- state --------------------------------- *)
VARIABLES
    args,       \* what the constructors are called with
    router,     \* the LLMRouter built from args, NoRouter before / on failure
    client,     \* the LLMClient built from args, NoClient before / on failure
    provider,   \* the adapter the registry selects for args, built directly
    ctor_exc,   \* how each constructor call ended
    request,    \* the chat request the caller makes
    vendor,     \* how the vendor client behaves for this request
    outcome,    \* per entry point: what the chat call did
    converted,  \* the result of _convert_messages, NotConverted before
    done        \* the operations that have run

vars == <<args, router, client, provider, ctor_exc, request, vendor, outcome,
          converted, done>>

Ctors == {"LLMRouter", "LLMClient"}
Paths == {"adapter", "router", "facade"}
NotCalled == Outcome(NoExc, NoResp, <<>>)
NotConverted == <<[role |-> <<"unset">>, content |-> <<>>]>>

InitCommon ==
    /\ ctor_exc = [c \in Ctors |-> NoExc]
    /\ outcome = [p \in Paths |-> NotCalled]
    /\ converted = NotConverted
    /\ done = {}

\* Before anything is constructed.
InitCtor ==
    /\ args \in CtorArgs
    /\ router = NoRouter
    /\ client = NoClient
    /\ provider = NoProvider
    /\ request = IdleRequest
    /\ vendor = "text"
    /\ InitCommon

\* After construction of a router, a facade and the adapter itself for one
\* registered backend; a request and the vendor's behaviour are given.
Init ==
    /\ args \in ChatArgs
    /\ router = LLMRouter_init(args.provider_name, args.api_key, args.provider_config).obj
    /\ client = LLMClient_init(args.provider_name, args.api_key, args.provider_config).obj
    /\ provider = Provider_init(RegistryGet(Lower(args.provider_name)),
                                args.api_key, args.provider_config).obj
    /\ request \in ChatRequests
    /\ vendor \in VendorBehaviours
    /\ InitCommon

InitConvert ==
    /\ args \in {Args(NAME_ANTHROPIC, "sk-1", <<>>)}
    /\ router = NoRouter
    /\ client = NoClient
    /\ provider = Provider_init("AnthropicProvider", args.api_key, <<>>).obj
    /\ request \in ConvRequests
    /\ vendor = "text"
    /\ InitCommon

(* ------------------------------ actions -------------------------------- *)
\* router = LLMRouter(provider_name, api_key, **provider_config)
NewRouter ==
    /\ "LLMRouter" \notin done
    /\ LET made == LLMRouter_init(args.provider_name, args.api_key,
                                  args.provider_config)
       IN  /\ router' = made.obj
           /\ ctor_exc' = [ctor_exc EXCEPT !["LLMRouter"] = made.exc]
    /\ done' = done \cup {"LLMRouter"}
    /\ UNCHANGED <<args, client, provider, request, vendor, outcome, converted>>

\* client = LLMClient(provider_name, api_key, **provider_config)
NewClient ==
    /\ "LLMClient" \notin done
    /\ LET made == LLMClient_init(args.provider_name, args.api_key,
                                  args.provider_config)
       IN  /\ client' = made.obj
           /\ ctor_exc' = [ctor_exc EXCEPT !["LLMClient"] = made.exc]
    /\ done' = done \cup {"LLMClient"}
    /\ UNCHANGED <<args, router, provider, request, vendor, outcome, converted>>

\* provider.chat(model, messages, **kwargs)
AdapterChat ==
    /\ provider # NoProvider
    /\ "adapter" \notin done
    /\ outcome' = [outcome EXCEPT !["adapter"] =
                      Provider_chat(provider, request.model, request.messages,
                                    request.kwargs, vendor)]
    /\ done' = done \cup {"adapter"}
    /\ UNCHANGED <<args, router, client, provider, ctor_exc, request, vendor,
                   converted>>

\* router.chat(model, messages, **kwargs)
RouterChat ==
    /\ router # NoRouter
    /\ "router" \notin done
    /\ outcome' = [outcome EXCEPT !["router"] =
                      LLMRouter_chat(router, request.model, request.messages,
                                     request.kwargs, vendor)]
    /\ done' = done \cup {"router"}
    /\ UNCHANGED <<args, router, client, provider, ctor_exc, request, vendor,
                   converted>>

\* client.chat.completions.create(model, messages, **kwargs)
FacadeCreate ==
    /\ client # NoClient
    /\ "facade" \notin done
    /\ outcome' = [outcome EXCEPT !["facade"] =
                      ChatCompletions_create(
                          ChatCompletions_completions(LLMClient_chat(client)),
                          request.model, request.messages, request.kwargs, vendor)]
    /\ done' = done \cup {"facade"}
    /\ UNCHANGED <<args, router, client, provider, ctor_exc, request, vendor,
                   converted>>

\* provider._convert_messages(messages), as chat calls it after validation
Convert ==
    /\ "convert" \notin done
    /\ _validate_messages(request.messages) = NoExc
    /\ converted' = _convert_messages(request.messages.items)
    /\ done' = done \cup {"convert"}
    /\ UNCHANGED <<args, router, client, provider, ctor_exc, request, vendor,
                   outcome>>

Next == AdapterChat \/ RouterChat \/ FacadeCreate
NextCtor == NewRouter \/ NewClient
NextConvert == Convert

Spec == Init /\ [][Next]_vars
SpecCtor == InitCtor /\ [][NextCtor]_vars
SpecConvert == InitConvert /\ [][NextConvert]_vars

(* ------------------- vocabulary of the specification ------------------- *)
\* The error kinds of the taxonomy, as the Python classes the code raises.
InvalidArgument == "ValueError"
BackendCallFailed == "RuntimeError"
IsUnsupportedProvider(e) ==
    /\ e.kind = "ValueError"
    /\ e.fmt = "Unsupported provider: {name}. Supported providers: {keys}"

Roles == {SYSTEM, USER, ASSISTANT}

WellFormedModel(m) == m.isstr /\ m.s # <<>>
\* An element that is not a Message of the data model.  Blank content is
\* counted as empty, as the validation counts it.
Offending(m) ==
    \/ ~m.isdict
    \/ m.keys # MsgKeys
    \/ ~m.role.isstr
    \/ m.role.s \notin Roles
    \/ ~m.content.isstr
    \/ Strip(m.content.s) = <<>>
WellFormedMessages(ms) ==
    /\ ms.islist
    /\ ms.items # <<>>
    /\ \A k \in 1..Len(ms.items) : ~Offending(ms.items[k])
WellFormedParams(kw) == \A k \in 1..Len(kw) : kw[k] \in allowed_params

Called(p) == p \in done
AdapterIs(cls) == provider.cls = cls

(* ------------------------------- claims -------------------------------- *)
\* C1: for every adapter, a chat call whose parameters hold a key outside the
\* allowed set (model and messages being well formed) ends in InvalidArgument
\* and hands nothing to the vendor client.
C1_UnknownParamRejected ==
    \A p \in Paths :
        (/\ Called(p)
         /\ WellFormedModel(request.model)
         /\ WellFormedMessages(request.messages)
         /\ ~WellFormedParams(request.kwargs))
        => /\ outcome[p].exc.kind = InvalidArgument
           /\ outcome[p].sent = <<>>

\* C4: for every adapter, a chat call with an empty messages sequence, with
\* any model and parameters, ends in InvalidArgument and hands nothing to the
\* vendor client.
C4_EmptyMessagesRejected ==
    \A p \in Paths :
        (Called(p) /\ request.messages.islist /\ request.messages.items = <<>>)
        => /\ outcome[p].exc.kind = InvalidArgument
           /\ outcome[p].sent = <<>>

C4_Witness ==
    /\ Paths \subseteq done
    /\ AdapterIs("AnthropicProvider")
    /\ request = Request(Str(MODEL_ID), List(<<>>), <<"temperature">>)
    /\ vendor = "text"
    /\ outcome["router"].exc.fmt = "Messages must be a non-empty list of dictionaries."

\* The least position (from 1) of an offending element.
FirstOffending(items) ==
    CHOOSE k \in 1..Len(items) :
        /\ Offending(items[k])
        /\ \A j \in 1..(k - 1) : ~Offending(items[j])

\* C5: for every adapter, a chat call with a non-empty messages sequence that
\* has an element with a role outside {system, user, assistant} or without
\* non-empty string content ends in InvalidArgument naming the index of the
\* first such element, and nothing reaches the vendor client.
C5_MalformedMessageRejected ==
    \A p \in Paths :
        (/\ Called(p)
         /\ WellFormedModel(request.model)
         /\ request.messages.islist
         /\ \E k \in 1..Len(request.messages.items) :
                Offending(request.messages.items[k]))
        => /\ outcome[p].exc.kind = InvalidArgument
           /\ outcome[p].exc.index = FirstOffending(request.messages.items) - 1
           /\ outcome[p].sent = <<>>

\* C6: for every adapter, a chat call whose model is not a non-empty string
\* ends in InvalidArgument with nothing handed to the vendor client, whatever
\* the messages and parameters are.
C6_BadModelRejected ==
    \A p \in Paths :
        (Called(p) /\ ~WellFormedModel(request.model))
        => /\ outcome[p].exc.kind = InvalidArgument
           /\ outcome[p].sent = <<>>

\* C7: for every adapter and every well-formed request, a failure raised by
\* the vendor client ends the call in the one BackendCallFailed kind, which
\* is neither InvalidArgument nor the vendor's own class, carries the
\* vendor's message and has the vendor's failure as its cause.
C7_VendorFailureNormalized ==
    \A p \in Paths :
        (/\ Called(p)
         /\ WellFormedModel(request.model)
         /\ WellFormedMessages(request.messages)
         /\ WellFormedParams(request.kwargs)
         /\ vendor = "raise")
        => /\ outcome[p].exc.kind = BackendCallFailed
           /\ outcome[p].exc.kind \notin {InvalidArgument, VendorError.kind, "none"}
           /\ outcome[p].exc.arg = VendorError.text
           /\ outcome[p].exc.cause = VendorError

\* C10: the facade's create, the router's chat and the adapter's chat, given
\* the same request and the same vendor behaviour, end the same way: same
\* response or same error, same native requests sent to the vendor.
C10_ForwardingAddsNothing ==
    \A p, q \in Paths :
        (Called(p) /\ Called(q)) => outcome[p] = outcome[q]

C10_Witness ==
    /\ Paths \subseteq done
    /\ AdapterIs("AnthropicProvider")
    /\ ~WellFormedModel(request.model)
    /\ request.kwargs = <<"bogus">>
    /\ outcome["facade"].exc = NoExc
    /\ Len(outcome["facade"].sent) = 1

\* The combined system text of the specification: the contents of the
\* system messages, in order, joined by a blank line.
RECURSIVE Join(_)
Join(contents) ==
    IF contents = <<>> THEN <<>>
    ELSE IF Len(contents) = 1 THEN contents[1]
    ELSE contents[1] \o SEP \o Join(Tail(contents))

IsSystem(m) == m.role.s = SYSTEM
IsntSystem(m) == m.role.s # SYSTEM
Plain(ms) == [k \in 1..Len(ms) |-> [role |-> ms[k].role.s, content |-> ms[k].content.s]]
JoinedSystem(items) ==
    Join([k \in 1..Len(SelectSeq(items, IsSystem)) |->
             SelectSeq(items, IsSystem)[k].content.s])
Others(items) == Plain(SelectSeq(items, IsntSystem))
FirstUserOf(ms) ==
    CHOOSE k \in 1..Len(ms) :
        ms[k].role = USER /\ \A j \in 1..(k - 1) : ms[j].role # USER

ConvertInput == request.messages.items
RolesKnown(items) == \A k \in 1..Len(items) : items[k].role.s \in Roles
HasRole(items, r) == \E k \in 1..Len(items) : items[k].role.s = r

\* C2: when a system message is followed later by a user message, the
\* translation is the non-system messages in their order, unchanged but for
\* the first user message, whose content becomes the joined system text, a
\* blank line, and its own content; no message stands for the system text.
C2_SystemMergedIntoFirstUser ==
    (/\ Called("convert")
     /\ RolesKnown(ConvertInput)
     /\ \E i, j \in 1..Len(ConvertInput) :
            /\ i < j
            /\ ConvertInput[i].role.s = SYSTEM
            /\ ConvertInput[j].role.s = USER)
    => converted =
         [Others(ConvertInput) EXCEPT
            ![FirstUserOf(Others(ConvertInput))].content =
                JoinedSystem(ConvertInput) \o SEP \o @]

\* C3: with a system message and no user message, the translation starts
\* with one user message holding the joined system text, and nothing else
\* in it comes from the system messages.
C3_SystemOnlyBecomesLeadingUser ==
    (/\ Called("convert")
     /\ RolesKnown(ConvertInput)
     /\ HasRole(ConvertInput, SYSTEM)
     /\ ~HasRole(ConvertInput, USER))
    => /\ Len(converted) = 1 + Len(Others(ConvertInput))
       /\ converted[1] = [role |-> USER, content |-> JoinedSystem(ConvertInput)]

Registered(name) == \E i \in 1..Len(RegistryKeys) : RegistryKeys[i] = name

\* C8: construction of a router fails with UnsupportedProvider exactly when
\* the lower-cased name is not registered; the failure builds no adapter and
\* its message lists every registered name; a registered lower-cased name
\* selects the adapter class registered under it.
C8_ConstructionByLowercasedName ==
    Called("LLMRouter") =>
        LET e == ctor_exc["LLMRouter"]
            name == Lower(args.provider_name)
        IN  /\ IsUnsupportedProvider(e) <=> ~Registered(name)
            /\ IsUnsupportedProvider(e) =>
                  /\ router = NoRouter
                  /\ \A i \in 1..Len(_PROVIDER_REGISTRY) :
                        \E j \in 1..Len(e.names) :
                            e.names[j] = _PROVIDER_REGISTRY[i][1]
                  /\ e.arg = name
            /\ router # NoRouter =>
                  /\ name = NAME_OPENAI => router.provider.cls = "OpenAIProvider"
                  /\ name = NAME_ANTHROPIC => router.provider.cls = "AnthropicProvider"
                  /\ router.provider_name = name

C8_Witness ==
    /\ Called("LLMRouter")
    /\ args.provider_name = <<"A","N","T","H","R","O","P","I","C">>
    /\ args.provider_config = <<>>
    /\ router.provider.cls = "AnthropicProvider"
    /\ ctor_exc["LLMRouter"] = NoExc

\* C9: for a registered name, any credentials and any extra configuration,
\* constructing a router or a facade succeeds and the adapter holds the
\* credentials and the configuration as given; UnsupportedProvider is the
\* only error a construction ends in.
C9_ConstructionPassesConfigThrough ==
    /\ Called("LLMRouter") =>
          /\ Registered(Lower(args.provider_name)) =>
                /\ ctor_exc["LLMRouter"] = NoExc
                /\ router.provider.api_key = args.api_key
                /\ router.provider.config = args.provider_config
          /\ ctor_exc["LLMRouter"] # NoExc =>
                IsUnsupportedProvider(ctor_exc["LLMRouter"])
    /\ Called("LLMClient") =>
          /\ Registered(Lower(args.provider_name)) =>
                /\ ctor_exc["LLMClient"] = NoExc
                /\ client.router.provider.api_key = args.api_key
                /\ client.router.provider.config = args.provider_config
          /\ ctor_exc["LLMClient"] # NoExc =>
                IsUnsupportedProvider(ctor_exc["LLMClient"])

WellFormedRequest ==
    /\ WellFormedModel(request.model)
    /\ WellFormedMessages(request.messages)
    /\ WellFormedParams(request.kwargs)

\* The tag of the backend the router was built for.
BackendTag ==
    IF router.provider.cls = "OpenAIProvider" THEN "openai" ELSE "anthropic"

\* C11: a well-formed request sent through a router to either backend, the
\* vendor call returning normally, does not end in UnsupportedProvider: it
\* returns a response whose model is the requested model id and whose
\* provider is the tag of the backend that answered.
C11_ResponseEchoesModelAndProvider ==
    (/\ Called("router")
     /\ WellFormedRequest
     /\ vendor # "raise")
    => /\ ~IsUnsupportedProvider(outcome["router"].exc)
       /\ outcome["router"].exc = NoExc
       /\ outcome["router"].resp.model = request.model
       /\ outcome["router"].resp.provider = BackendTag

\* C12: for every adapter and every well-formed request, a vendor response
\* without choices / content segments does not make chat raise: chat returns
\* a response whose content is the empty string.
C12_EmptyVendorResponseGivesEmptyContent ==
    \A p \in Paths :
        (/\ Called(p)
         /\ WellFormedRequest
         /\ vendor = "empty")
        => /\ outcome[p].exc = NoExc
           /\ outcome[p].resp.content = Str(<<>>)

\* text occurs as a contiguous piece of whole.
OccursIn(text, whole) ==
    \E i \in 1..(Len(whole) - Len(text) + 1) :
        SubSeq(whole, i, i + Len(text) - 1) = text

\* C13: the translation never drops system guidance: for a valid message
\* sequence, the content of every system message occurs within the content
\* of some translated message, and no translated message has role system.
C13_SystemContentNeverDropped ==
    (Called("convert") /\ RolesKnown(ConvertInput))
    => /\ \A k \in 1..Len(ConvertInput) :
              ConvertInput[k].role.s = SYSTEM =>
                  \E j \in 1..Len(converted) :
                      OccursIn(ConvertInput[k].content.s, converted[j].content)
       /\ \A j \in 1..Len(converted) : converted[j].role # SYSTEM

C13_Witness ==
    /\ Called("convert")
    /\ ConvertInput = <<Msg(ASSISTANT, <<"Hi">>), Msg(SYSTEM, <<"Be terse.">>)>>
    /\ converted = <<[role |-> ASSISTANT, content |-> <<"Hi">>],
                     [role |-> USER, content |-> <<"Be terse.">>]>>

=============================================================================
